---- MODULE Spec2Model ----
(***************************************************************************)
(* Jobly data access layer: the Company and Job models and the helper      *)
(* sqlForPartialUpdate, over a relational store with the tables            *)
(*   companies(handle PK, name, description, num_employees, logo_url)      *)
(*   jobs(id PK generated, title, salary, equity, company_handle FK)       *)
(*                                                                         *)
(* Encoding of values.  SQL NULL in an integer column is NullInt (-1; the  *)
(* columns hold values >= 0), NULL in a text column is NullText.  A NUMERIC*)
(* equity is held in thousandths (500 is 0.5).  Names and titles are       *)
(* sequences of characters, so that ILIKE can be computed on them.  A      *)
(* JavaScript object is the sequence of its <<key, value>> pairs in        *)
(* insertion order, which is the order of Object.keys.                     *)
(***************************************************************************)
EXTENDS Integers, Sequences, FiniteSets, TLC

\* companies, jobs: the two tables, each a function from the primary key of a
\*   stored row to the row's other columns.
\* nextId: the next value of the sequence behind jobs.id.
\* last: the latest call made to the models and what it returned or threw.
\* pend: the Company.create calls suspended at their second await.
\* focus: the entity whose operations draw their inputs from the full input
\*   sets in this behaviour; the rows of the other entity are all made from
\*   one plain input (a bound on the inputs, see PlainCompanyData).
VARIABLES companies, jobs, nextId, last, pend, focus

vars == <<companies, jobs, nextId, last, pend, focus>>

(***************************** bounds **************************************)
\* Largest id the jobs_id_seq sequence hands out in the model.
MaxJobId == 2
\* Number of callers that have a Company.create call open at the same time.
MaxCallers == 2
\* Largest number of keys of the data object passed to update.
MaxDataKeys == 2
\* Largest number of keys outside the allow-list in a filter object.
MaxInvalidKeys == 2

(***************************** values **************************************)
NullInt == 0 - 1
NullText == "<null>"

Handles == {"c1", "c2"}
CompanyNames == {<<"a", "b">>, <<"A">>}
Descriptions == {"d1"}
NumEmployeesVals == {NullInt, 5}
LogoUrls == {NullText, "u"}

JobTitles == {<<"a", "b">>, <<"B">>}
Salaries == {NullInt, 100}
Equities == {500}

\* The data objects Company.create is called with.
CompanyData ==
  [handle : Handles, name : CompanyNames, description : Descriptions,
   numEmployees : NumEmployeesVals, logoUrl : LogoUrls]

\* The data objects Job.create is called with.
JobData ==
  [title : JobTitles, salary : Salaries, equity : Equities,
   companyHandle : Handles]

(***************************** helpers *************************************)
Range(s) == {s[i] : i \in DOMAIN s}

\* Object.keys(obj) of an object held as a sequence of <<key, value>> pairs.
ObjectKeys(obj) == [i \in DOMAIN obj |-> obj[i][1]]

\* Object.values(obj).
ObjectValues(obj) == [i \in DOMAIN obj |-> obj[i][2]]

HasKey(obj, k) == \E i \in DOMAIN obj : obj[i][1] = k

\* obj[k] for a key the object has.
Lookup(obj, k) == obj[CHOOSE i \in DOMAIN obj : obj[i][1] = k][2]


(***************************** helpers/sql.js ******************************)
\* One element of cols: the text `"<column>"=$<n>`, held as its tokens.
\* The template with idx in place of idx + 1: placeholders from $0.
AssignmentFromZero(column, n) == <<"\"", column, "\"", "=", "$", n - 1>>

Assignment(column, n) == <<"\"", column, "\"", "=", "$", n>>

\* Properties every object literal inherits from Object.prototype, with the
\* text a template literal makes of their values.
ObjectPrototype ==
  [toString |-> "function toString() { [native code] }",
   constructor |-> "function Object() { [native code] }"]

\* jsToSql[colName] || colName: the value of the own property colName of
\* jsToSql, else of the property it inherits, and colName itself where that
\* value is undefined or falsy (the empty string).
Column(jsToSql, colName) ==
  IF HasKey(jsToSql, colName)
  THEN IF Lookup(jsToSql, colName) # "" THEN Lookup(jsToSql, colName)
       ELSE colName
  ELSE IF colName \in DOMAIN ObjectPrototype THEN ObjectPrototype[colName]
  ELSE colName

\* sqlForPartialUpdate without the check of keys.length.
sqlForPartialUpdateUnchecked(dataToUpdate, jsToSql) ==
  LET keys == ObjectKeys(dataToUpdate)
  IN [threw |-> "none",
      setCols |-> [idx \in DOMAIN keys |->
                     Assignment(Column(jsToSql, keys[idx]), idx)],
      values |-> ObjectValues(dataToUpdate)]

\* sqlForPartialUpdate(dataToUpdate, jsToSql).  setCols is held as the
\* sequence cols that the code joins with ", ".
sqlForPartialUpdate(dataToUpdate, jsToSql) ==
  LET keys == ObjectKeys(dataToUpdate)
  IN IF Len(keys) = 0
     THEN [threw |-> "BadRequestError", message |-> <<"No data">>]
     ELSE [threw |-> "none",
           setCols |-> [idx \in DOMAIN keys |->
                          Assignment(Column(jsToSql, keys[idx]), idx)],
           values |-> ObjectValues(dataToUpdate)]

(***************************** the store ***********************************)
CompanyColumns == {"handle", "name", "description", "num_employees", "logo_url"}
JobColumns == {"id", "title", "salary", "equity", "company_handle"}

\* The column an assignment of a SET clause names, and its parameter number.
SetColumn(assignment) == assignment[2]
SetParam(assignment) == assignment[6]

\* The parse-time errors of UPDATE <table> SET <setCols>: an empty SET clause,
\* a column the table does not have, or a column assigned twice.
SetClauseError(setCols, columns) ==
  IF Len(setCols) = 0 THEN "syntax_error"
  ELSE IF \E i \in DOMAIN setCols : SetColumn(setCols[i]) \notin columns
  THEN "undefined_column"
  ELSE IF \E i, j \in DOMAIN setCols :
            i # j /\ SetColumn(setCols[i]) = SetColumn(setCols[j])
       THEN "syntax_error"
       ELSE "none"

Assigns(setCols, column) ==
  \E i \in DOMAIN setCols : SetColumn(setCols[i]) = column

\* The new value of a column under SET <setCols> with parameters params.
NewValue(setCols, params, column, old) ==
  IF Assigns(setCols, column)
  THEN params[SetParam(setCols[CHOOSE i \in DOMAIN setCols :
                                  SetColumn(setCols[i]) = column])]
  ELSE old

\* The table t without the row of key k.
Without(t, k) == [x \in DOMAIN t \ {k} |-> t[x]]

\* The table t with the row of key k set to row.
With(t, k, row) == [x \in DOMAIN t \cup {k} |-> IF x = k THEN row ELSE t[x]]

\* PRIMARY KEY: a row of key k is stored in the table t.
KeyTaken(t, k) == k \in DOMAIN t

\* jobs.company_handle REFERENCES companies: the jobs that reference handle.
JobsOf(jobsTable, handle) ==
  {id \in DOMAIN jobsTable : jobsTable[id].company_handle = handle}

\* The reference is kept on a delete of the company handle by deleting the
\* jobs that reference it with it.
JobsAfterCompanyDelete(jobsTable, handle) ==
  [id \in DOMAIN jobsTable \ JobsOf(jobsTable, handle) |-> jobsTable[id]]

\* DELETE FROM companies with the WHERE clause lost: every row goes.
DeleteCompanyEveryRow(co, jb, handle) ==
  IF handle \notin DOMAIN co
  THEN [rows |-> <<>>, companies |-> co, jobs |-> jb]
  ELSE [rows |-> <<[handle |-> handle]>>,
        companies |-> <<>>,
        jobs |-> <<>>]

\* RETURNING handle, name, description, num_employees AS "numEmployees",
\* logo_url AS "logoUrl" for the row of key handle.
CompanyReturning(handle, row) ==
  [handle |-> handle, name |-> row.name, description |-> row.description,
   numEmployees |-> row.num_employees, logoUrl |-> row.logo_url]

\* RETURNING id, title, salary, equity, company_handle AS "companyHandle".
JobReturning(id, row) ==
  [id |-> id, title |-> row.title, salary |-> row.salary,
   equity |-> row.equity, companyHandle |-> row.company_handle]


NoRows == <<>>

\* All orders in which the rows of the set S can be returned.
RECURSIVE Perms(_)
Perms(S) ==
  IF S = {} THEN {<<>>}
  ELSE UNION {{<<x>> \o p : p \in Perms(S \ {x})} : x \in S}

\* SELECT handle FROM companies WHERE handle = $1
SelectCompanyHandle(co, handle) ==
  IF handle \in DOMAIN co THEN <<[handle |-> handle]>> ELSE NoRows

\* InsertCompany with num_employees left out of the column list.
InsertCompanyWithoutEmployees(co, params) ==
  IF KeyTaken(co, params[1])
  THEN [err |-> "unique_violation", rows |-> NoRows, companies |-> co]
  ELSE LET row == [name |-> params[2], description |-> params[3],
                   num_employees |-> NullInt, logo_url |-> params[5]]
       IN [err |-> "none",
           rows |-> <<CompanyReturning(params[1], row)>>,
           companies |-> With(co, params[1], row)]

\* InsertCompany as an upsert (ON CONFLICT (handle) DO UPDATE).
InsertCompanyUpsert(co, params) ==
  LET row == [name |-> params[2], description |-> params[3],
              num_employees |-> params[4], logo_url |-> params[5]]
  IN [err |-> "none",
      rows |-> <<CompanyReturning(params[1], row)>>,
      companies |-> With(co, params[1], row)]

\* INSERT INTO companies (handle, name, description, num_employees, logo_url)
\* VALUES ($1, $2, $3, $4, $5) RETURNING ...; handle is the primary key.
InsertCompany(co, params) ==
  IF KeyTaken(co, params[1])
  THEN [err |-> "unique_violation", rows |-> NoRows, companies |-> co]
  ELSE LET row == [name |-> params[2], description |-> params[3],
                   num_employees |-> params[4], logo_url |-> params[5]]
       IN [err |-> "none",
           rows |-> <<CompanyReturning(params[1], row)>>,
           companies |-> With(co, params[1], row)]

\* UpdateCompanies writing NULL to the nullable columns SET does not name.
UpdateCompaniesOverwriting(co, jb, setCols, whereParam, params) ==
  LET key == params[whereParam]
      parse == SetClauseError(setCols, CompanyColumns)
  IN IF parse # "none"
     THEN [err |-> parse, rows |-> NoRows, companies |-> co]
     ELSE IF key \notin DOMAIN co
     THEN [err |-> "none", rows |-> NoRows, companies |-> co]
     ELSE LET old == co[key]
              handle == NewValue(setCols, params, "handle", key)
              row == [name |-> NewValue(setCols, params, "name", old.name),
                      description |->
                        NewValue(setCols, params, "description", old.description),
                      num_employees |->
                        NewValue(setCols, params, "num_employees", NullInt),
                      logo_url |->
                        NewValue(setCols, params, "logo_url", NullText)]
          IN IF handle # key /\ KeyTaken(co, handle)
             THEN [err |-> "unique_violation", rows |-> NoRows, companies |-> co]
             ELSE IF handle # key /\ JobsOf(jb, key) # {}
             THEN [err |-> "foreign_key_violation", rows |-> NoRows,
                   companies |-> co]
             ELSE [err |-> "none",
                   rows |-> <<CompanyReturning(handle, row)>>,
                   companies |-> With(Without(co, key), handle, row)]

\* UPDATE companies SET <setCols> WHERE handle = $<whereParam> RETURNING ...
\* A changed handle must stay unique, and the jobs that reference the old
\* handle hold the update back.
UpdateCompanies(co, jb, setCols, whereParam, params) ==
  LET key == params[whereParam]
      parse == SetClauseError(setCols, CompanyColumns)
  IN IF parse # "none"
     THEN [err |-> parse, rows |-> NoRows, companies |-> co]
     ELSE IF key \notin DOMAIN co
     THEN [err |-> "none", rows |-> NoRows, companies |-> co]
     ELSE LET old == co[key]
              handle == NewValue(setCols, params, "handle", key)
              row == [name |-> NewValue(setCols, params, "name", old.name),
                      description |->
                        NewValue(setCols, params, "description", old.description),
                      num_employees |->
                        NewValue(setCols, params, "num_employees", old.num_employees),
                      logo_url |->
                        NewValue(setCols, params, "logo_url", old.logo_url)]
          IN IF handle # key /\ KeyTaken(co, handle)
             THEN [err |-> "unique_violation", rows |-> NoRows, companies |-> co]
             ELSE IF handle # key /\ JobsOf(jb, key) # {}
             THEN [err |-> "foreign_key_violation", rows |-> NoRows,
                   companies |-> co]
             ELSE [err |-> "none",
                   rows |-> <<CompanyReturning(handle, row)>>,
                   companies |-> With(Without(co, key), handle, row)]

\* DELETE FROM companies WHERE handle = $1 RETURNING handle.  The jobs that
\* reference the company are deleted with it.
DeleteCompany(co, jb, handle) ==
  IF handle \notin DOMAIN co
  THEN [rows |-> NoRows, companies |-> co, jobs |-> jb]
  ELSE [rows |-> <<[handle |-> handle]>>,
        companies |-> Without(co, handle),
        jobs |-> JobsAfterCompanyDelete(jb, handle)]

NullChars == <<"<null>">>

\* One row of companies AS c LEFT JOIN jobs AS j ON c.handle = j.company_handle.
JoinRow(co, jb, handle, id) ==
  [handle |-> handle, name |-> co[handle].name,
   description |-> co[handle].description,
   numEmployees |-> co[handle].num_employees,
   logoUrl |-> co[handle].logo_url,
   id |-> id,
   title |-> IF id = NullInt THEN NullChars ELSE jb[id].title,
   salary |-> IF id = NullInt THEN NullInt ELSE jb[id].salary,
   equity |-> IF id = NullInt THEN NullInt ELSE jb[id].equity]

\* SELECT c.handle, ..., j.id, j.title, j.salary, j.equity FROM companies AS c
\* LEFT JOIN jobs AS j ON c.handle = j.company_handle WHERE handle = $1:
\* the row sequences the query can return (it states no order).
SelectCompanyJoin(co, jb, handle) ==
  IF handle \notin DOMAIN co THEN {NoRows}
  ELSE IF JobsOf(jb, handle) = {}
  THEN {<<JoinRow(co, jb, handle, NullInt)>>}
  ELSE {[i \in DOMAIN p |-> JoinRow(co, jb, handle, p[i])] :
          p \in Perms(JobsOf(jb, handle))}

\* INSERT INTO jobs (title, salary, equity, company_handle)
\* VALUES ($1, $2, $3, $4) RETURNING ...; id is taken from the sequence.
InsertJob(co, jb, id, params) ==
  IF params[4] \notin DOMAIN co
  THEN [err |-> "foreign_key_violation", rows |-> NoRows, jobs |-> jb]
  ELSE IF KeyTaken(jb, id)
  THEN [err |-> "unique_violation", rows |-> NoRows, jobs |-> jb]
  ELSE LET row == [title |-> params[1], salary |-> params[2],
                   equity |-> params[3], company_handle |-> params[4]]
       IN [err |-> "none", rows |-> <<JobReturning(id, row)>>,
           jobs |-> With(jb, id, row)]

\* SELECT id, title, salary, equity, company_handle AS "companyHandle"
\* FROM jobs WHERE id = $1
SelectJob(jb, id) ==
  IF id \in DOMAIN jb THEN <<JobReturning(id, jb[id])>> ELSE NoRows

\* UPDATE jobs SET <setCols> WHERE id = $<whereParam> RETURNING ...
UpdateJobs(co, jb, setCols, whereParam, params) ==
  LET key == params[whereParam]
      parse == SetClauseError(setCols, JobColumns)
  IN IF parse # "none"
     THEN [err |-> parse, rows |-> NoRows, jobs |-> jb]
     ELSE IF key \notin DOMAIN jb
     THEN [err |-> "none", rows |-> NoRows, jobs |-> jb]
     ELSE LET old == jb[key]
              id == NewValue(setCols, params, "id", key)
              row == [title |-> NewValue(setCols, params, "title", old.title),
                      salary |-> NewValue(setCols, params, "salary", old.salary),
                      equity |-> NewValue(setCols, params, "equity", old.equity),
                      company_handle |->
                        NewValue(setCols, params, "company_handle",
                                 old.company_handle)]
          IN IF id # key /\ KeyTaken(jb, id)
             THEN [err |-> "unique_violation", rows |-> NoRows, jobs |-> jb]
             ELSE IF row.company_handle \notin DOMAIN co
             THEN [err |-> "foreign_key_violation", rows |-> NoRows, jobs |-> jb]
             ELSE [err |-> "none", rows |-> <<JobReturning(id, row)>>,
                   jobs |-> With(Without(jb, key), id, row)]

\* DELETE FROM jobs WHERE id = $1 RETURNING id
DeleteJob(jb, id) ==
  IF id \notin DOMAIN jb
  THEN [rows |-> NoRows, jobs |-> jb]
  ELSE [rows |-> <<[id |-> id]>>, jobs |-> Without(jb, id)]


(***************************** inputs **************************************)
\* The objects with at most n keys made of the <<key, value>> pairs given.
RECURSIVE Objects(_, _)
Objects(pairs, n) ==
  IF n = 0 THEN {<<>>}
  ELSE LET shorter == Objects(pairs, n - 1)
       IN shorter \cup
          {Append(x[1], x[2]) :
             x \in {y \in shorter \X pairs :
                      Len(y[1]) = n - 1 /\ ~HasKey(y[1], y[2][1])}}

\* The input every row of the entity out of focus is made from.
PlainCompanyData ==
  [handle : Handles, name : {<<"a", "b">>}, description : {"d1"},
   numEmployees : {5}, logoUrl : {NullText}]
PlainJobData ==
  [title : {<<"a", "b">>}, salary : {100}, equity : {0},
   companyHandle : Handles]

\* The ids Job.get, Job.update and Job.remove are called with; 0 is never
\* the id of a job.
JobIds == 0 .. MaxJobId

CompanyUpdatePairs ==
  {<<"name", v>> : v \in CompanyNames}
    \cup {<<"description", v>> : v \in Descriptions}
    \cup {<<"numEmployees", v>> : v \in NumEmployeesVals}
    \cup {<<"logoUrl", v>> : v \in LogoUrls}
    \cup {<<"handle", v>> : v \in Handles}

JobUpdatePairs ==
  {<<"title", v>> : v \in JobTitles}
    \cup {<<"salary", v>> : v \in Salaries}
    \cup {<<"equity", v>> : v \in Equities}
    \cup {<<"companyHandle", v>> : v \in Handles}
    \cup {<<"id", v>> : v \in 1 .. MaxJobId}

CompanyDataIn == IF focus = "company" THEN CompanyData ELSE PlainCompanyData

JobDataIn == IF focus = "job" THEN JobData ELSE PlainJobData

\* The data objects Company.update is called with: of the entity in focus,
\* every object of at most MaxDataKeys keys; out of focus, a change of key.
CompanyUpdateData == Objects(CompanyUpdatePairs, MaxDataKeys)
PlainCompanyUpdateData == Objects({<<"handle", v>> : v \in Handles}, 1)

CompanyUpdateIn ==
  IF focus = "company" THEN CompanyUpdateData ELSE PlainCompanyUpdateData

\* The data objects Job.update is called with.
JobUpdateData == Objects(JobUpdatePairs, MaxDataKeys)
PlainJobUpdateData == Objects({<<"companyHandle", v>> : v \in Handles}, 1)

JobUpdateIn ==
  IF focus = "job" THEN JobUpdateData ELSE PlainJobUpdateData

(***************************** calls ***************************************)
NoData == <<>>

\* The call op(arg, data) threw an error of the kind given, after issuing
\* the number of storage queries given.
Threw(op, arg, data, kind, message, queries) ==
  [op |-> op, arg |-> arg, data |-> data, threw |-> kind,
   message |-> message, value |-> <<>>, queries |-> queries]

\* The call op(arg, data) returned value.
Returned(op, arg, data, value, queries) ==
  [op |-> op, arg |-> arg, data |-> data, threw |-> "none",
   message |-> <<>>, value |-> value, queries |-> queries]

\* The caller awaits each call before it makes the next: no call is open.
Awaited == last.op = "none"

(***************************** models/company.js ***************************)
\* Company.create writing the row before it looks for a duplicate.
CompanyCreateInsertFirst(data) ==
  LET duplicateCheck == SelectCompanyHandle(companies, data.handle)
      result == InsertCompanyUpsert(companies,
                  <<data.handle, data.name, data.description,
                    data.numEmployees, data.logoUrl>>)
  IN /\ Awaited
     /\ companies' = result.companies
     /\ last' = IF Len(duplicateCheck) > 0
                THEN Threw("Company.create", data, NoData, "BadRequestError",
                           <<"Duplicate company", data.handle>>, 2)
                ELSE Returned("Company.create", data, NoData,
                              result.rows[1], 2)
     /\ UNCHANGED <<jobs, nextId, pend, focus>>

CompanyCreate(data) ==
  LET duplicateCheck == SelectCompanyHandle(companies, data.handle)
      result == InsertCompany(companies,
                  <<data.handle, data.name, data.description,
                    data.numEmployees, data.logoUrl>>)
  IN /\ Awaited
     /\ IF Len(duplicateCheck) > 0
        THEN /\ last' = Threw("Company.create", data, NoData, "BadRequestError",
                              <<"Duplicate company", data.handle>>, 1)
             /\ UNCHANGED companies
        ELSE IF result.err # "none"
        THEN /\ last' = Threw("Company.create", data, NoData, "DbError",
                              <<result.err>>, 2)
             /\ UNCHANGED companies
        ELSE /\ last' = Returned("Company.create", data, NoData,
                                 result.rows[1], 2)
             /\ companies' = result.companies
     /\ UNCHANGED <<jobs, nextId, pend, focus>>

\* What Company.get hands back, as JavaScript values: the array rows of the
\* query result, which is no object of named fields.
JsArray(items) == [t |-> "array", items |-> items]
JsObject(fields) == [t |-> "object", fields |-> fields]

\* What Company.get(handle) returns or throws on the tables co and jb, for
\* each row sequence its query can return.
CompanyGetOutcomes(co, jb, handle) ==
  {IF Len(company) = 0
   THEN Threw("Company.get", handle, NoData, "NotFoundError",
              <<"No company", handle>>, 1)
   ELSE Returned("Company.get", handle, NoData, JsArray(company), 1) :
     company \in SelectCompanyJoin(co, jb, handle)}

CompanyGet(handle) ==
  /\ Awaited
  /\ last' \in CompanyGetOutcomes(companies, jobs, handle)
  /\ UNCHANGED <<companies, jobs, nextId, pend, focus>>

CompanyJsToSql ==
  <<<<"numEmployees", "num_employees">>, <<"logoUrl", "logo_url">>>>

CompanyUpdate(handle, data) ==
  LET sql == sqlForPartialUpdate(data, CompanyJsToSql)
  IN /\ Awaited
     /\ IF sql.threw # "none"
        THEN /\ last' = Threw("Company.update", handle, data, sql.threw,
                              sql.message, 0)
             /\ UNCHANGED companies
        ELSE LET handleVarIdx == Len(sql.values) + 1
                 result == UpdateCompanies(companies, jobs, sql.setCols,
                             handleVarIdx, Append(sql.values, handle))
             IN IF result.err # "none"
                THEN /\ last' = Threw("Company.update", handle, data, "DbError",
                                      <<result.err>>, 1)
                     /\ UNCHANGED companies
                ELSE IF Len(result.rows) = 0
                THEN /\ last' = Threw("Company.update", handle, data,
                                      "NotFoundError", <<"No company", handle>>, 1)
                     /\ UNCHANGED companies
                ELSE /\ last' = Returned("Company.update", handle, data,
                                         result.rows[1], 1)
                     /\ companies' = result.companies
     /\ UNCHANGED <<jobs, nextId, pend, focus>>

CompanyRemove(handle) ==
  LET result == DeleteCompany(companies, jobs, handle)
  IN /\ Awaited
     /\ companies' = result.companies
     /\ jobs' = result.jobs
     /\ last' = IF Len(result.rows) = 0
                THEN Threw("Company.remove", handle, NoData, "NotFoundError",
                           <<"No company", handle>>, 1)
                ELSE Returned("Company.remove", handle, NoData, <<>>, 1)
     /\ UNCHANGED <<nextId, pend, focus>>

(***************************** models/job.js *******************************)
JobCreate(data) ==
  LET result == InsertJob(companies, jobs, nextId,
                  <<data.title, data.salary, data.equity, data.companyHandle>>)
  IN /\ Awaited
     /\ nextId <= MaxJobId
     /\ nextId' = nextId + 1
     /\ jobs' = result.jobs
     /\ last' = IF result.err # "none"
                THEN Threw("Job.create", data, NoData, "DbError",
                           <<result.err>>, 1)
                ELSE Returned("Job.create", data, NoData, result.rows[1], 1)
     /\ UNCHANGED <<companies, pend, focus>>

\* What Job.get(id) returns or throws on the table jb.
JobGetOutcome(jb, id) ==
  LET jobRes == SelectJob(jb, id)
  IN IF Len(jobRes) = 0
     THEN Threw("Job.get", id, NoData, "NotFoundError",
                <<"No job found with id", id>>, 1)
     ELSE Returned("Job.get", id, NoData, jobRes[1], 1)

JobGet(id) ==
  /\ Awaited
  /\ last' = JobGetOutcome(jobs, id)
  /\ UNCHANGED <<companies, jobs, nextId, pend, focus>>

JobJsToSql == <<<<"companyHandle", "company_handle">>>>

JobUpdate(id, data) ==
  LET sql == sqlForPartialUpdate(data, JobJsToSql)
  IN /\ Awaited
     /\ IF sql.threw # "none"
        THEN /\ last' = Threw("Job.update", id, data, sql.threw, sql.message, 0)
             /\ UNCHANGED jobs
        ELSE LET handleVarIdx == Len(sql.values) + 1
                 result == UpdateJobs(companies, jobs, sql.setCols,
                             handleVarIdx, Append(sql.values, id))
             IN IF result.err # "none"
                THEN /\ last' = Threw("Job.update", id, data, "DbError",
                                      <<result.err>>, 1)
                     /\ UNCHANGED jobs
                ELSE IF Len(result.rows) = 0
                THEN /\ last' = Threw("Job.update", id, data, "NotFoundError",
                                      <<"No job found with id", id>>, 1)
                     /\ UNCHANGED jobs
                ELSE /\ last' = Returned("Job.update", id, data,
                                         result.rows[1], 1)
                     /\ jobs' = result.jobs
     /\ UNCHANGED <<companies, nextId, pend, focus>>

\* Job.remove without the check of the deleted row.
JobRemoveUnchecked(id) ==
  LET result == DeleteJob(jobs, id)
  IN /\ Awaited
     /\ jobs' = result.jobs
     /\ last' = Returned("Job.remove", id, NoData, <<>>, 1)
     /\ UNCHANGED <<companies, nextId, pend, focus>>

JobRemove(id) ==
  LET result == DeleteJob(jobs, id)
  IN /\ Awaited
     /\ jobs' = result.jobs
     /\ last' = IF Len(result.rows) = 0
                THEN Threw("Job.remove", id, NoData, "NotFoundError",
                           <<"No job found with id", id>>, 1)
                ELSE Returned("Job.remove", id, NoData, <<>>, 1)
     /\ UNCHANGED <<companies, nextId, pend, focus>>

(***************************** specification *******************************)
EmptyTable == <<>>

NoCall ==
  [op |-> "none", arg |-> <<>>, data |-> NoData, threw |-> "none",
   message |-> <<>>, value |-> <<>>, queries |-> 0]

Init ==
  /\ companies = EmptyTable
  /\ jobs = EmptyTable
  /\ nextId = 1
  /\ last = NoCall
  /\ pend = <<>>
  /\ focus \in {"company", "job"}

\* The caller has taken the result of its call and goes on.
Settle ==
  /\ last.op # "none"
  /\ last' = NoCall
  /\ UNCHANGED <<companies, jobs, nextId, pend, focus>>

Next ==
  \/ \E data \in CompanyDataIn : CompanyCreate(data)
  \/ \E handle \in Handles : CompanyGet(handle)
  \/ \E handle \in Handles, data \in CompanyUpdateIn : CompanyUpdate(handle, data)
  \/ \E handle \in Handles : CompanyRemove(handle)
  \/ \E data \in JobDataIn : JobCreate(data)
  \/ \E id \in JobIds : JobGet(id)
  \/ \E id \in JobIds, data \in JobUpdateIn : JobUpdate(id, data)
  \/ \E id \in JobIds : JobRemove(id)
  \/ Settle

Spec == Init /\ [][Next]_vars


(***************************** claims **************************************)
CompanyFields == {"name", "description", "numEmployees", "logoUrl"}
JobFields == {"title", "salary", "equity", "companyHandle"}

\* The record Company.update and Company.create return for a stored row.
StoredCompany(co, handle) == CompanyReturning(handle, co[handle])
StoredJob(jb, id) == JobReturning(id, jb[id])

\* t2 holds every row of t except that of key k, unchanged.
OthersKept(t, t2, k) ==
  \A x \in DOMAIN t \ {k} : x \in DOMAIN t2 /\ t2[x] = t[x]

\* C1: Company.create(data) throws BadRequestError "Duplicate company" when a
\* company with data.handle is stored, and leaves the table as it is;
\* otherwise it adds exactly the one company data.handle, keeps every other
\* row, and returns the stored record, which equals data.
C1_CreateContract ==
  [][last'.op = "Company.create" =>
       LET data == last'.arg
       IN IF data.handle \in DOMAIN companies
          THEN /\ last'.threw = "BadRequestError"
               /\ last'.message = <<"Duplicate company", data.handle>>
               /\ companies' = companies
          ELSE /\ last'.threw = "none"
               /\ DOMAIN companies' = DOMAIN companies \cup {data.handle}
               /\ OthersKept(companies, companies', data.handle)
               /\ last'.value = StoredCompany(companies', data.handle)
               /\ last'.value = data]_vars

\* A company was created beside another one already stored.
C1_Witness ==
  /\ last.op = "Company.create"
  /\ last.threw = "none"
  /\ Cardinality(DOMAIN companies) = 2
  /\ last.value.numEmployees = 5


(***************************** findAll *************************************)
\* JavaScript values of the filters: undefined, a number, a string (its
\* characters), a boolean.
Undefined == [t |-> "undefined", n |-> 0, s |-> <<>>]
Num(n) == [t |-> "number", n |-> n, s |-> <<>>]
Str(s) == [t |-> "string", n |-> 0, s |-> s]
Bool(b) == [t |-> "boolean", n |-> (IF b THEN 1 ELSE 0), s |-> <<>>]

\* searchFilters[k], undefined for a key the object does not have.
Prop(obj, k) == IF HasKey(obj, k) THEN Lookup(obj, k) ELSE Undefined

\* The UTF-16 code unit of a character of the model.
CharCode(c) ==
  CASE c = "%" -> 37
    [] c = "0" -> 48 [] c = "1" -> 49 [] c = "5" -> 53 [] c = "9" -> 57
    [] c = "A" -> 65 [] c = "B" -> 66
    [] c = "_" -> 95
    [] c = "a" -> 97 [] c = "b" -> 98

\* The value of a decimal digit.
DigitValue(c) == CharCode(c) - 48

\* Number(s) for a string of decimal digits.
RECURSIVE DecimalValue(_)
DecimalValue(s) ==
  IF Len(s) = 0 THEN 0
  ELSE 10 * DecimalValue(SubSeq(s, 1, Len(s) - 1)) + DigitValue(s[Len(s)])

\* ToNumber of a number or a string of digits.
ToNumber(v) == IF v.t = "string" THEN DecimalValue(v.s) ELSE v.n

\* a < b for strings: by code units, a proper prefix being smaller.
RECURSIVE StringLess(_, _)
StringLess(a, b) ==
  IF Len(b) = 0 THEN FALSE
  ELSE IF Len(a) = 0 THEN TRUE
  ELSE IF CharCode(Head(a)) # CharCode(Head(b))
  THEN CharCode(Head(a)) < CharCode(Head(b))
  ELSE StringLess(Tail(a), Tail(b))

\* a > b of JavaScript: two strings compare as strings, undefined makes the
\* comparison false, anything else compares as numbers.
JsGreater(a, b) ==
  IF a.t = "undefined" \/ b.t = "undefined" THEN FALSE
  ELSE IF a.t = "string" /\ b.t = "string" THEN StringLess(b.s, a.s)
  ELSE ToNumber(a) > ToNumber(b)

\* Lower case of a character, as ILIKE folds it.
Lower(c) ==
  CASE c = "A" -> "a" [] c = "B" -> "b" [] OTHER -> c

\* str LIKE pattern, letters compared without case: % matches any run of
\* characters and _ any one character.
RECURSIVE LikeMatch(_, _)
LikeMatch(pattern, str) ==
  IF Len(pattern) = 0 THEN Len(str) = 0
  ELSE IF Head(pattern) = "%"
  THEN \/ LikeMatch(Tail(pattern), str)
       \/ Len(str) > 0 /\ LikeMatch(pattern, Tail(str))
  ELSE /\ Len(str) > 0
       /\ Head(pattern) = "_" \/ Lower(Head(pattern)) = Lower(Head(str))
       /\ LikeMatch(Tail(pattern), Tail(str))

\* The template `%${name}%`.
Wrapped(v) == <<"%">> \o v.s \o <<"%">>

\* column >= $n and column <= $n for an integer column and a parameter sent
\* as a number or as its text: a NULL column satisfies neither.
AtLeast(column, v) == column # NullInt /\ column >= ToNumber(v)
AtMost(column, v) == column # NullInt /\ column <= ToNumber(v)

\* SELECT ... FROM companies with the ORDER BY clause lost: the rows in any
\* order.
OrderedByNothing(co, S) == Perms(S)

\* ORDER BY name: the orders of the handles in S in which no company comes
\* before one whose name is less (names compare by code units).
OrderedByName(co, S) ==
  {p \in Perms(S) :
     \A i, j \in DOMAIN p : i < j => ~StringLess(co[p[j]].name, co[p[i]].name)}

\* ORDER BY id: the ids in S in ascending order.
OrderedById(S) ==
  {p \in Perms(S) : \A i, j \in DOMAIN p : i < j => p[i] < p[j]}

\* InvalidFilters stopping at the first key outside the allow-list.
InvalidFiltersFirstOnly(searchFilters, allowedFilters) ==
  LET all == SelectSeq(ObjectKeys(searchFilters),
                       LAMBDA key : key \notin allowedFilters)
  IN IF Len(all) = 0 THEN all ELSE <<all[1]>>

\* Object.keys(searchFilters).filter(key => !allowedFilters.includes(key))
InvalidFilters(searchFilters, allowedFilters) ==
  SelectSeq(ObjectKeys(searchFilters), LAMBDA key : key \notin allowedFilters)

CompanyAllowedFilters == {"name", "minEmployees", "maxEmployees"}
JobAllowedFilters == {"title", "minSalary", "hasEquity"}

\* SELECT ... FROM companies [WHERE ...] ORDER BY name: the handles of the
\* rows, in each order the query can return them.
SelectCompanies(co, name, minEmployees, maxEmployees) ==
  LET hit(h) ==
        /\ name.t # "undefined" => LikeMatch(Wrapped(name), co[h].name)
        /\ minEmployees.t # "undefined" =>
             AtLeast(co[h].num_employees, minEmployees)
        /\ maxEmployees.t # "undefined" =>
             AtMost(co[h].num_employees, maxEmployees)
  IN {[i \in DOMAIN p |-> CompanyReturning(p[i], co[p[i]])] :
        p \in OrderedByName(co, {h \in DOMAIN co : hit(h)})}

\* What Company.findAll(searchFilters) returns or throws on the table co.
CompanyFindAllOutcomes(co, searchFilters) ==
  LET invalidFilters == InvalidFilters(searchFilters, CompanyAllowedFilters)
      name == Prop(searchFilters, "name")
      minEmployees == Prop(searchFilters, "minEmployees")
      maxEmployees == Prop(searchFilters, "maxEmployees")
  IN IF Len(invalidFilters) > 0
     THEN {Threw("Company.findAll", searchFilters, NoData, "BadRequestError",
                 <<"Invalid filter(s)", invalidFilters>>, 0)}
     ELSE IF JsGreater(minEmployees, maxEmployees)
     THEN {Threw("Company.findAll", searchFilters, NoData, "BadRequestError",
                 <<"minEmployees cannot be greater than maxEmployees">>, 0)}
     ELSE {Returned("Company.findAll", searchFilters, NoData, rows, 1) :
             rows \in SelectCompanies(co, name, minEmployees, maxEmployees)}

CompanyFindAll(searchFilters) ==
  /\ Awaited
  /\ last' \in CompanyFindAllOutcomes(companies, searchFilters)
  /\ UNCHANGED <<companies, jobs, nextId, pend, focus>>

\* The test of hasEquity as a truthy value, if (hasEquity).
IsTruthy(v) ==
  \/ v.t = "string" /\ Len(v.s) > 0
  \/ v.t = "number" /\ v.n # 0
  \/ v.t = "boolean" /\ v.n = 1

\* hasEquity === 'true'
IsStringTrue(v) == v.t = "string" /\ v.s = <<"t", "r", "u", "e">>

\* SELECT ... FROM jobs [WHERE ...] ORDER BY id
SelectJobs(jb, title, minSalary, hasEquity) ==
  LET hit(id) ==
        /\ title.t # "undefined" => LikeMatch(Wrapped(title), jb[id].title)
        /\ minSalary.t # "undefined" => AtLeast(jb[id].salary, minSalary)
        /\ IsStringTrue(hasEquity) =>
             jb[id].equity # NullInt /\ jb[id].equity > 0
  IN {[i \in DOMAIN p |-> JobReturning(p[i], jb[p[i]])] :
        p \in OrderedById({id \in DOMAIN jb : hit(id)})}

\* What Job.findAll(searchFilters) returns or throws on the table jb.
JobFindAllOutcomes(jb, searchFilters) ==
  LET invalidFilters == InvalidFilters(searchFilters, JobAllowedFilters)
      title == Prop(searchFilters, "title")
      minSalary == Prop(searchFilters, "minSalary")
      hasEquity == Prop(searchFilters, "hasEquity")
  IN IF Len(invalidFilters) > 0
     THEN {Threw("Job.findAll", searchFilters, NoData, "BadRequestError",
                 <<"Invalid filter(s)", invalidFilters>>, 0)}
     ELSE {Returned("Job.findAll", searchFilters, NoData, rows, 1) :
             rows \in SelectJobs(jb, title, minSalary, hasEquity)}

JobFindAll(searchFilters) ==
  /\ Awaited
  /\ last' \in JobFindAllOutcomes(jobs, searchFilters)
  /\ UNCHANGED <<companies, jobs, nextId, pend, focus>>

(***************************** findAll: inputs *****************************)
\* The rows of the tables findAll is called on.
FindNumEmployees == {NullInt, 5, 10}
FindSalaries == {NullInt, 5}
FindEquities == {NullInt, 0, 500}

FindCompanyRows ==
  [name : CompanyNames, description : {"d1"},
   num_employees : FindNumEmployees, logo_url : {NullText}]

FindJobRows ==
  [title : JobTitles, salary : FindSalaries, equity : FindEquities,
   company_handle : {"c1"}]

\* The tables with a row for each key of the set keys.
Tables(keys, rows) == UNION {[ks -> rows] : ks \in SUBSET keys}

\* The values of the name and title filters: plain text, text in the other
\* case, text with the LIKE wildcard _, text no row holds.
FilterTexts ==
  {Str(<<"a">>), Str(<<"B">>), Str(<<"_", "b">>), Str(<<"b", "a">>)}

\* The values of the bounds: numbers, and the same numbers as the text of a
\* query string.
FilterBounds ==
  {Num(5), Num(10), Str(<<"5">>), Str(<<"1", "0">>), Str(<<"9">>)}

\* The values of minSalary: a number, and a larger number as the text of a
\* query string.
SalaryBounds == {Num(5), Str(<<"1", "0">>)}

FilterFlags ==
  {Str(<<"t", "r", "u", "e">>), Str(<<"0">>), Bool(TRUE)}

\* The objects that give each key of keys, in this order, one of its values
\* or leave it out.
RECURSIVE Optional(_, _)
Optional(keys, values) ==
  IF Len(keys) = 0 THEN {<<>>}
  ELSE LET rest == Optional(Tail(keys), values)
       IN rest \cup
          {<<<<Head(keys), v>>>> \o o : v \in values[Head(keys)], o \in rest}

CompanyFilters ==
  Optional(<<"name", "minEmployees", "maxEmployees">>,
           [k \in CompanyAllowedFilters |->
              IF k = "name" THEN FilterTexts ELSE FilterBounds])

JobFilters ==
  Optional(<<"title", "minSalary", "hasEquity">>,
           [k \in JobAllowedFilters |->
              IF k = "title" THEN FilterTexts
              ELSE IF k = "minSalary" THEN SalaryBounds ELSE FilterFlags])

\* Keys no allow-list holds.
InvalidKeys == {"foo", "bar", "baz"}

\* The sequences of at most n of the keys of S, each at most once.
RECURSIVE KeySeqs(_, _)
KeySeqs(S, n) ==
  IF n = 0 THEN {<<>>}
  ELSE LET shorter == KeySeqs(S, n - 1)
       IN shorter \cup
          {Append(x[1], x[2]) :
             x \in {y \in shorter \X S :
                      Len(y[1]) = n - 1 /\ y[2] \notin Range(y[1])}}

\* Filter objects with keys outside the allow-list: such keys alone, before
\* the allowed keys, and after them.
Rejected(allowed) ==
  {[i \in DOMAIN ks |-> <<ks[i], Str(<<"a">>)>>] \o o :
     ks \in KeySeqs(InvalidKeys, MaxInvalidKeys) \ {<<>>}, o \in {<<>>, allowed}}
    \cup
  {allowed \o [i \in DOMAIN ks |-> <<ks[i], Str(<<"a">>)>>] :
     ks \in KeySeqs(InvalidKeys, MaxInvalidKeys) \ {<<>>}}

CompanyFiltersIn ==
  CompanyFilters \cup
    Rejected(<<<<"name", Str(<<"a">>)>>, <<"minEmployees", Num(10)>>,
               <<"maxEmployees", Num(5)>>>>)

JobFiltersIn ==
  JobFilters \cup
    Rejected(<<<<"title", Str(<<"a">>)>>,
               <<"hasEquity", Str(<<"t", "r", "u", "e">>)>>>>)

(***************************** findAll: specification **********************)
InitFindAll ==
  /\ focus \in {"company", "job"}
  /\ companies \in IF focus = "company" THEN Tables(Handles, FindCompanyRows)
                   ELSE {[h \in {"c1"} |-> [name |-> <<"a", "b">>,
                                            description |-> "d1",
                                            num_employees |-> 5,
                                            logo_url |-> NullText]]}
  /\ jobs \in IF focus = "job" THEN Tables(1 .. MaxJobId, FindJobRows)
              ELSE {EmptyTable}
  /\ nextId = MaxJobId + 1
  /\ last = NoCall
  /\ pend = <<>>

NextFindAll ==
  \/ \E searchFilters \in CompanyFiltersIn : CompanyFindAll(searchFilters)
  \/ \E searchFilters \in JobFiltersIn : JobFindAll(searchFilters)
  \/ Settle

SpecFindAll == InitFindAll /\ [][NextFindAll]_vars

(***************** Company.create calls that overlap ***********************)
Callers == 1 .. MaxCallers

Idle == [pc |-> "idle"]

\* The call has sent its duplicate check and waits at the first await; the
\* store answers with the rows it holds at this moment.
CreateCheck(p, data) ==
  /\ pend[p].pc = "idle"
  /\ pend' = [pend EXCEPT ![p] =
                [pc |-> "checked", data |-> data,
                 duplicateCheck |-> SelectCompanyHandle(companies, data.handle)]]
  /\ UNCHANGED <<companies, jobs, nextId, last, focus>>

\* The call goes on after the first await: it throws on a duplicate, else
\* it sends the INSERT and returns or throws what the store answers.
CreateFinish(p) ==
  LET data == pend[p].data
      result == InsertCompany(companies,
                  <<data.handle, data.name, data.description,
                    data.numEmployees, data.logoUrl>>)
  IN /\ pend[p].pc = "checked"
     /\ IF Len(pend[p].duplicateCheck) > 0
        THEN /\ pend' = [pend EXCEPT ![p] =
                           [pc |-> "done", data |-> data,
                            outcome |-> Threw("Company.create", data, NoData,
                                              "BadRequestError",
                                              <<"Duplicate company", data.handle>>,
                                              1)]]
             /\ UNCHANGED companies
        ELSE IF result.err # "none"
        THEN /\ pend' = [pend EXCEPT ![p] =
                           [pc |-> "done", data |-> data,
                            outcome |-> Threw("Company.create", data, NoData,
                                              "DbError", <<result.err>>, 2)]]
             /\ UNCHANGED companies
        ELSE /\ pend' = [pend EXCEPT ![p] =
                           [pc |-> "done", data |-> data,
                            outcome |-> Returned("Company.create", data, NoData,
                                                 result.rows[1], 2)]]
             /\ companies' = result.companies
     /\ UNCHANGED <<jobs, nextId, last, focus>>

InitConcurrent ==
  /\ companies = EmptyTable
  /\ jobs = EmptyTable
  /\ nextId = 1
  /\ last = NoCall
  /\ pend = [p \in Callers |-> Idle]
  /\ focus = "company"

NextConcurrent ==
  \/ \E p \in Callers, data \in CompanyData : CreateCheck(p, data)
  \/ \E p \in Callers : CreateFinish(p)

SpecConcurrent == InitConcurrent /\ [][NextConcurrent]_vars

\* The finished Company.create calls for the handle h.
FinishedFor(h) ==
  {p \in Callers : pend[p].pc = "done" /\ pend[p].data.handle = h}

\* C2: of the Company.create calls for one handle that overlap in any way,
\* exactly one returns; every other one throws BadRequestError (duplicate) or
\* the store's unique violation, and the store holds the one company of that
\* handle, as the call that returned gave it.
C2_ConcurrentCreate ==
  \A h \in Handles :
    FinishedFor(h) # {} =>
      /\ Cardinality({p \in FinishedFor(h) : pend[p].outcome.threw = "none"}) = 1
      /\ \A p \in FinishedFor(h) :
           \/ /\ pend[p].outcome.threw = "none"
              /\ h \in DOMAIN companies
              /\ StoredCompany(companies, h) = pend[p].data
              /\ pend[p].outcome.value = pend[p].data
           \/ /\ pend[p].outcome.threw = "BadRequestError"
              /\ pend[p].outcome.message = <<"Duplicate company", h>>
           \/ /\ pend[p].outcome.threw = "DbError"
              /\ pend[p].outcome.message = <<"unique_violation">>

\* Two calls for one handle both passed the duplicate check; one inserted
\* and the other got the store's unique violation.
C2_Witness ==
  \E p, q \in Callers :
    /\ p # q
    /\ pend[p].pc = "done" /\ pend[q].pc = "done"
    /\ pend[p].data.handle = pend[q].data.handle
    /\ pend[p].data # pend[q].data
    /\ pend[p].outcome.threw = "none"
    /\ pend[q].outcome.threw = "DbError"

\* C3: for Company and for Job, get(key), update(key, data) with data not
\* empty, and remove(key) throw NotFoundError whenever no row of that key is
\* stored when the call is made.
C3_NotFound ==
  [][/\ (/\ \/ last'.op \in {"Company.get", "Company.remove"}
            \/ last'.op = "Company.update" /\ Len(last'.data) > 0
         /\ last'.arg \notin DOMAIN companies)
          => last'.threw = "NotFoundError"
     /\ (/\ \/ last'.op \in {"Job.get", "Job.remove"}
            \/ last'.op = "Job.update" /\ Len(last'.data) > 0
         /\ last'.arg \notin DOMAIN jobs)
          => last'.threw = "NotFoundError"]_vars

\* Job.update of an id that is not stored, with data, threw NotFoundError
\* while other jobs are stored.
C3_Witness ==
  /\ last.op = "Job.update"
  /\ Len(last.data) > 0
  /\ last.arg \notin DOMAIN jobs
  /\ last.threw = "NotFoundError"
  /\ DOMAIN jobs # {}

\* C4: sqlForPartialUpdate throws BadRequestError on an empty field mapping
\* under every column-override mapping, and Company.update(key, {}) and
\* Job.update(key, {}) throw BadRequestError without a storage query,
\* whether the key is stored or not.
C4_EmptyUpdateRejected ==
  /\ \A jsToSql \in {<<>>, CompanyJsToSql, JobJsToSql} :
       sqlForPartialUpdate(<<>>, jsToSql).threw = "BadRequestError"
  /\ (last.op \in {"Company.update", "Job.update"} /\ Len(last.data) = 0)
       => last.threw = "BadRequestError" /\ last.queries = 0

\* Company.update(key, {}) was called for a stored key.
C4_Witness ==
  /\ last.op = "Company.update"
  /\ Len(last.data) = 0
  /\ last.arg \in DOMAIN companies
  /\ last.threw = "BadRequestError"

\* The key of the row after update(key, data): data may name the key column.
KeyAfter(key, data, keyField) ==
  IF HasKey(data, keyField) THEN Lookup(data, keyField) ELSE key

\* C5: a successful update(key, data) leaves every field that data does not
\* name at its stored value, leaves every other row of both tables as it
\* is, and returns the record stored after the update.
C5_UpdateFrame ==
  [][/\ (last'.op = "Company.update" /\ last'.threw = "none") =>
          LET key == last'.arg
              data == last'.data
              after == KeyAfter(key, data, "handle")
          IN /\ key \in DOMAIN companies
             /\ DOMAIN companies' = (DOMAIN companies \ {key}) \cup {after}
             /\ OthersKept(companies, companies', key)
             /\ \A f \in CompanyFields :
                  ~HasKey(data, f) =>
                    StoredCompany(companies', after)[f]
                      = StoredCompany(companies, key)[f]
             /\ last'.value = StoredCompany(companies', after)
             /\ jobs' = jobs
     /\ (last'.op = "Job.update" /\ last'.threw = "none") =>
          LET key == last'.arg
              data == last'.data
              after == KeyAfter(key, data, "id")
          IN /\ key \in DOMAIN jobs
             /\ DOMAIN jobs' = (DOMAIN jobs \ {key}) \cup {after}
             /\ OthersKept(jobs, jobs', key)
             /\ \A f \in JobFields :
                  ~HasKey(data, f) =>
                    StoredJob(jobs', after)[f] = StoredJob(jobs, key)[f]
             /\ last'.value = StoredJob(jobs', after)
             /\ companies' = companies]_vars

\* Company.update named numEmployees and logoUrl of one of two stored
\* companies and succeeded.
C5_Witness ==
  /\ last.op = "Company.update"
  /\ last.threw = "none"
  /\ ObjectKeys(last.data) = <<"numEmployees", "logoUrl">>
  /\ Cardinality(DOMAIN companies) = 2


RejectedKeys(searchFilters, allowed) ==
  {k \in Range(ObjectKeys(searchFilters)) : k \notin allowed}

AllowedFor(op) ==
  IF op = "Company.findAll" THEN CompanyAllowedFilters ELSE JobAllowedFilters

\* C7: Company.findAll and Job.findAll throw BadRequestError, with a message
\* that names every key outside the allow-list, whenever the filter object
\* has such a key, allowed keys beside it or not, and send no storage query.
C7_InvalidFilterRejected ==
  (/\ last.op \in {"Company.findAll", "Job.findAll"}
   /\ RejectedKeys(last.arg, AllowedFor(last.op)) # {})
    => /\ last.threw = "BadRequestError"
       /\ last.queries = 0
       /\ last.message[1] = "Invalid filter(s)"
       /\ Range(last.message[2]) = RejectedKeys(last.arg, AllowedFor(last.op))

\* Company.findAll was called with two keys outside the allow-list after
\* three allowed keys.
C7_Witness ==
  /\ last.op = "Company.findAll"
  /\ Cardinality(RejectedKeys(last.arg, CompanyAllowedFilters)) = 2
  /\ Len(last.arg) = 5
  /\ last.arg[1][1] = "name"

\* C8: Company.findAll throws BadRequestError without a storage query
\* whenever minEmployees and maxEmployees are both given and minEmployees is
\* the greater number, in every representation of the bounds (numbers, or
\* the text of a query string); with one bound alone it does not throw.
C8_MinAboveMaxRejected ==
  (/\ last.op = "Company.findAll"
   /\ RejectedKeys(last.arg, CompanyAllowedFilters) = {})
    => LET min == Prop(last.arg, "minEmployees")
           max == Prop(last.arg, "maxEmployees")
       IN /\ (/\ min.t # "undefined"
              /\ max.t # "undefined"
              /\ ToNumber(min) > ToNumber(max))
               => last.threw = "BadRequestError" /\ last.queries = 0
          /\ (min.t = "undefined" \/ max.t = "undefined")
               => last.threw = "none"

\* C9: Job.findAll with hasEquity the string "true" returns no job whose
\* equity is zero or NULL; with hasEquity absent or any other value it
\* returns what the same filters without hasEquity return.
C9_HasEquity ==
  (last.op = "Job.findAll" /\ last.threw = "none")
    => LET hasEquity == Prop(last.arg, "hasEquity")
       IN IF hasEquity = Str(<<"t", "r", "u", "e">>)
          THEN \A i \in DOMAIN last.value :
                 /\ last.value[i].equity # NullInt
                 /\ last.value[i].equity > 0
          ELSE last.value \in SelectJobs(jobs, Prop(last.arg, "title"),
                                         Prop(last.arg, "minSalary"), Undefined)

\* Job.findAll with hasEquity "true" returned one job and left out a stored
\* job whose equity is zero.
C9_Witness ==
  /\ last.op = "Job.findAll"
  /\ last.threw = "none"
  /\ Prop(last.arg, "hasEquity") = Str(<<"t", "r", "u", "e">>)
  /\ Len(last.value) = 1
  /\ \E id \in DOMAIN jobs : jobs[id].equity = 0

\* sub is a substring of str, letters compared without case.
ContainsIgnoreCase(str, sub) ==
  \E i \in 0 .. (Len(str) - Len(sub)) :
    \A j \in 1 .. Len(sub) : Lower(str[i + j]) = Lower(sub[j])

\* The company row satisfies every filter the object gives.
CompanySatisfies(row, filters) ==
  /\ HasKey(filters, "name") =>
       ContainsIgnoreCase(row.name, Lookup(filters, "name").s)
  /\ HasKey(filters, "minEmployees") =>
       /\ row.num_employees # NullInt
       /\ row.num_employees >= ToNumber(Lookup(filters, "minEmployees"))
  /\ HasKey(filters, "maxEmployees") =>
       /\ row.num_employees # NullInt
       /\ row.num_employees <= ToNumber(Lookup(filters, "maxEmployees"))

\* The job row satisfies every filter the object gives.
JobSatisfies(row, filters) ==
  /\ HasKey(filters, "title") =>
       ContainsIgnoreCase(row.title, Lookup(filters, "title").s)
  /\ HasKey(filters, "minSalary") =>
       /\ row.salary # NullInt
       /\ row.salary >= ToNumber(Lookup(filters, "minSalary"))
  /\ Prop(filters, "hasEquity") = Str(<<"t", "r", "u", "e">>) =>
       row.equity # NullInt /\ row.equity > 0

\* A filter object findAll is to accept: allowed keys only, and no lower
\* bound above the upper bound.
ValidFilters(filters, allowed) ==
  /\ RejectedKeys(filters, allowed) = {}
  /\ (HasKey(filters, "minEmployees") /\ HasKey(filters, "maxEmployees"))
       => ToNumber(Lookup(filters, "minEmployees"))
            <= ToNumber(Lookup(filters, "maxEmployees"))

\* C10: for every valid filter object findAll returns, without an error,
\* exactly the stored rows that satisfy all the filters given: name and
\* title as a substring without case, minEmployees and minSalary as a lower
\* bound, maxEmployees as an upper bound, hasEquity "true" as equity > 0.
C10_FindAllExact ==
  /\ (last.op = "Company.findAll"
        /\ ValidFilters(last.arg, CompanyAllowedFilters))
       => /\ last.threw = "none"
          /\ {last.value[i].handle : i \in DOMAIN last.value}
               = {h \in DOMAIN companies :
                    CompanySatisfies(companies[h], last.arg)}
          /\ \A i \in DOMAIN last.value :
               last.value[i] = StoredCompany(companies, last.value[i].handle)
          /\ Len(last.value) = Cardinality({h \in DOMAIN companies :
                    CompanySatisfies(companies[h], last.arg)})
  /\ (last.op = "Job.findAll" /\ ValidFilters(last.arg, JobAllowedFilters))
       => /\ last.threw = "none"
          /\ {last.value[i].id : i \in DOMAIN last.value}
               = {id \in DOMAIN jobs : JobSatisfies(jobs[id], last.arg)}
          /\ \A i \in DOMAIN last.value :
               last.value[i] = StoredJob(jobs, last.value[i].id)
          /\ Len(last.value) = Cardinality({id \in DOMAIN jobs :
                    JobSatisfies(jobs[id], last.arg)})

\* C11: what findAll returns is in the sort order, with filters or without:
\* companies ascending by name (equal names in either order), jobs ascending
\* by id; with no filter it returns every stored row, each once, in that
\* order.
C11_SortOrder ==
  /\ (last.op = "Company.findAll" /\ last.threw = "none")
       => /\ \A i, j \in DOMAIN last.value :
               i < j => ~StringLess(last.value[j].name, last.value[i].name)
          /\ Len(last.arg) = 0
               => /\ {last.value[i].handle : i \in DOMAIN last.value}
                       = DOMAIN companies
                  /\ Len(last.value) = Cardinality(DOMAIN companies)
                  /\ \A i \in DOMAIN last.value :
                       last.value[i]
                         = StoredCompany(companies, last.value[i].handle)
  /\ (last.op = "Job.findAll" /\ last.threw = "none")
       => /\ \A i, j \in DOMAIN last.value :
               i < j => last.value[i].id < last.value[j].id
          /\ Len(last.arg) = 0
               => /\ {last.value[i].id : i \in DOMAIN last.value} = DOMAIN jobs
                  /\ Len(last.value) = Cardinality(DOMAIN jobs)
                  /\ \A i \in DOMAIN last.value :
                       last.value[i] = StoredJob(jobs, last.value[i].id)

\* Company.findAll without a filter returned both stored companies, the
\* company c2 first because its name is the smaller one.
C11_Witness ==
  /\ last.op = "Company.findAll"
  /\ last.threw = "none"
  /\ Len(last.arg) = 0
  /\ Len(last.value) = 2
  /\ last.value[1].handle = "c2"
  /\ StringLess(last.value[1].name, last.value[2].name)

(***************** sqlForPartialUpdate called on its own *******************)
\* The field names of dataToUpdate: two of the users table (the tests of the
\* helper), and one that every object inherits a property for.
FieldNames == {"firstName", "email", "toString"}
FieldValues == {"Vera", NullText}

PartialUpdateData ==
  Objects({<<k, v>> : k \in FieldNames, v \in FieldValues}, MaxDataKeys)

\* The jsToSql of the tests of the helper.
UserJsToSql ==
  <<<<"firstName", "first_name">>, <<"lastName", "last_name">>,
    <<"isAdmin", "is_admin">>>>

\* The override mappings: none, the one of the tests, one with an empty
\* column name, one with an own property toString.
PartialUpdateJsToSql ==
  {<<>>, UserJsToSql, <<<<"email", "">>>>, <<<<"toString", "to_string">>>>}

\* A call sqlForPartialUpdate(dataToUpdate, jsToSql).
PartialUpdateCall(dataToUpdate, jsToSql) ==
  LET sql == sqlForPartialUpdate(dataToUpdate, jsToSql)
  IN /\ Awaited
     /\ last' = IF sql.threw # "none"
                THEN Threw("sqlForPartialUpdate", dataToUpdate, jsToSql,
                           sql.threw, sql.message, 0)
                ELSE Returned("sqlForPartialUpdate", dataToUpdate, jsToSql,
                              [setCols |-> sql.setCols, values |-> sql.values],
                              0)
     /\ UNCHANGED <<companies, jobs, nextId, pend, focus>>

InitPartialUpdate ==
  /\ companies = EmptyTable
  /\ jobs = EmptyTable
  /\ nextId = 1
  /\ last = NoCall
  /\ pend = <<>>
  /\ focus = "company"

NextPartialUpdate ==
  \/ \E dataToUpdate \in PartialUpdateData, jsToSql \in PartialUpdateJsToSql :
       PartialUpdateCall(dataToUpdate, jsToSql)
  \/ Settle

SpecPartialUpdate == InitPartialUpdate /\ [][NextPartialUpdate]_vars

\* C12: for a field mapping of N > 0 keys sqlForPartialUpdate returns N
\* assignments and N values; the i-th assignment has the form
\* "column"=$i and the i-th value is the value of the i-th field of the
\* mapping, as given.
C12_Placeholders ==
  (last.op = "sqlForPartialUpdate" /\ Len(last.arg) > 0)
    => /\ last.threw = "none"
       /\ Len(last.value.setCols) = Len(last.arg)
       /\ Len(last.value.values) = Len(last.arg)
       /\ \A i \in 1 .. Len(last.arg) :
            /\ Len(last.value.setCols[i]) = 6
            /\ last.value.setCols[i][4] = "="
            /\ last.value.setCols[i][5] = "$"
            /\ last.value.setCols[i][6] = i
            /\ last.value.values[i] = last.arg[i][2]

\* sqlForPartialUpdate returned for a mapping of two fields with different
\* values, under the override mapping of the tests.
C12_Witness ==
  /\ last.op = "sqlForPartialUpdate"
  /\ last.threw = "none"
  /\ last.data = UserJsToSql
  /\ Len(last.arg) = 2
  /\ last.arg[1][2] # last.arg[2][2]

\* C13: the column of each assignment is the value the override mapping
\* gives for the field name where the field name is a key of the mapping,
\* and the field name itself for every other field name; it stands between
\* double quotes.
C13_ColumnMapping ==
  (last.op = "sqlForPartialUpdate" /\ last.threw = "none")
    => \A i \in 1 .. Len(last.arg) :
         LET colName == last.arg[i][1]
             assignment == last.value.setCols[i]
         IN /\ assignment[1] = "\""
            /\ assignment[3] = "\""
            /\ assignment[2] = IF HasKey(last.data, colName)
                               THEN Lookup(last.data, colName)
                               ELSE colName

\* The company of key handle with its jobs in the order p, as the record
\* { handle, name, description, numEmployees, logoUrl, jobs }.
CompanyWithJobs(co, jb, handle, p) ==
  JsObject([handle |-> handle, name |-> co[handle].name,
            description |-> co[handle].description,
            numEmployees |-> co[handle].num_employees,
            logoUrl |-> co[handle].logo_url,
            jobs |-> JsArray([i \in DOMAIN p |-> JobReturning(p[i], jb[p[i]])])])

\* C14: Company.get(handle) of a stored company returns one company record
\* { handle, name, description, numEmployees, logoUrl, jobs }, jobs being
\* the sequence of the jobs of that company (empty when it has none), and
\* not the rows of the join, however many jobs the company has.
C14_GetReturnsCompany ==
  (last.op = "Company.get" /\ last.arg \in DOMAIN companies)
    => /\ last.threw = "none"
       /\ last.value.t = "object"
       /\ \E p \in Perms(JobsOf(jobs, last.arg)) :
            last.value = CompanyWithJobs(companies, jobs, last.arg, p)

\* C15: no call changes the key of a stored row, whatever data update is
\* called with: update leaves the handles of the stored companies and the
\* ids of the stored jobs as they are, create adds at most the key of the
\* row it creates, and remove adds none.
C15_KeysNeverMutated ==
  [][/\ last'.op \in {"Company.update", "Job.update"}
          => /\ DOMAIN companies' = DOMAIN companies
             /\ DOMAIN jobs' = DOMAIN jobs
     /\ last'.op = "Company.create"
          => /\ DOMAIN companies' \subseteq DOMAIN companies \cup {last'.arg.handle}
             /\ DOMAIN jobs' = DOMAIN jobs
     /\ last'.op = "Job.create"
          => /\ DOMAIN jobs' \subseteq DOMAIN jobs \cup {nextId}
             /\ DOMAIN companies' = DOMAIN companies
     /\ last'.op \in {"Company.remove", "Job.remove"}
          => /\ DOMAIN companies' \subseteq DOMAIN companies
             /\ DOMAIN jobs' \subseteq DOMAIN jobs]_vars

\* The calls that write to the store.
WritingCalls ==
  {"Company.create", "Company.update", "Company.remove",
   "Job.create", "Job.update", "Job.remove"}

\* C16: a create, update or remove call that throws (BadRequestError,
\* NotFoundError, or an error of the store) leaves both tables as they were
\* before the call: no row is inserted, changed or deleted.
C16_ErrorsLeaveStore ==
  [][(last'.op \in WritingCalls /\ last'.threw # "none")
       => /\ companies' = companies
          /\ jobs' = jobs]_vars

\* Company.create threw BadRequestError for a handle that is stored with
\* other field values than those the call gave.
C16_Witness ==
  /\ last.op = "Company.create"
  /\ last.threw = "BadRequestError"
  /\ last.arg.handle \in DOMAIN companies
  /\ StoredCompany(companies, last.arg.handle) # last.arg
  /\ DOMAIN jobs # {}

====
